---- MODULE Spec2Model ----
(***************************************************************************)
(* node-pptx-parser: PptxParser.parse, PptxParser.getSlideRelations and    *)
(* PptxParser.extractTextFromSlide of src/src/index.ts.                    *)
(*                                                                         *)
(* A parsed XML node (an xml2js object) is a function from its keys to     *)
(* their values: a key the object lacks is outside its DOMAIN, so the      *)
(* JavaScript test `obj[key]` is `key \in DOMAIN obj`.  The value of a     *)
(* child key is the xml2js array of the children of that name, which is    *)
(* never empty; an element without children or attributes (xml2js gives    *)
(* the string "") is the object with no keys.  JavaScript strings are TLA+ *)
(* strings, except the relationship Type, which is a sequence of           *)
(* characters so that endsWith is computed position by position.           *)
(***************************************************************************)
EXTENDS Integers, Sequences, FiniteSets, TLC

VARIABLES
    \* ---- PptxParser.parse ----
    archive,        \* the opened archive: its entries and what reading them gives
    call,           \* 1 during the first parse() of the archive, 2 during the second
    pc,             \* where parse() stands
    presentationContent, relationshipsContent,  \* locals of parse, lines 64-65
    presentationData, relationshipsData,        \* locals of parse, lines 67-70
    tasks,          \* the async callbacks of slideRelations.map, one per relation
    values,         \* the result slots of Promise.all, one per relation
    outcome,        \* how the promise of parse() settled, "pending" before
    first,          \* the outcome of the first parse()
    readsStarted,   \* number of getFileContent calls made by this parse()
    failures,       \* messages of the reads and XML parses that failed in this parse()
    outOfOrder,     \* a slide task fulfilled after a task of a later relation
    firstOutOfOrder,\* outOfOrder of the first parse()
    \* ---- PptxParser.getSlideRelations ----
    relationshipsDoc, \* the parsed relationships document handed to the method
    relationsOut,     \* the returned SlideRelation array
    relThrew,         \* TRUE when the call ended in a TypeError
    rpc,              \* "ready" before the call, "done" after it
    \* ---- PptxParser.extractTextFromSlide ----
    slideData,      \* the parsed slide tree handed to extractTextFromSlide
    texts,          \* the returned array `texts`
    paragraphTrace, \* the `paragraphTexts` array of every text body with a:p, in order
    threw,          \* TRUE when the call ended in a TypeError
    xpc             \* "ready" before the call, "done" after it

parseVars == <<archive, call, pc, presentationContent, relationshipsContent,
               presentationData, relationshipsData, tasks, values, outcome, first,
               readsStarted, failures, outOfOrder, firstOutOfOrder>>
relVars == <<relationshipsDoc, relationsOut, relThrew, rpc>>
extractVars == <<slideData, texts, paragraphTrace, threw, xpc>>
vars == <<parseVars, relVars, extractVars>>

(***************************************************************************)
(* Bounds of the inputs.                                                   *)
(***************************************************************************)
MaxRuns   == 3   \* runs of a paragraph
MaxParas  == 3   \* paragraphs of a text body
MaxBodies == 2   \* p:txBody children of a shape
MaxShapes == 2   \* p:sp children of the shape tree
MaxRecords == 3  \* Relationship records handed to getSlideRelations
MaxRels   == 3   \* Relationship records of the archive's relationships part

SeqUpTo(S, n) == UNION {[1..k -> S] : k \in 1..n}

(***************************************************************************)
(* xml2js objects.                                                         *)
(***************************************************************************)
Empty == [k \in {} |-> <<>>]
Has(obj, key) == key \in DOMAIN obj
Child(key, present, value) == IF present THEN key :> value ELSE Empty

RunTexts == {"", "Hello ", "World"}
Run(t) == "a:t" :> <<t>>
RunNoText == Empty
Runs == {RunNoText} \cup {Run(t) : t \in RunTexts}

\* runs = <<>> stands for a paragraph without any a:r child
Paragraph(runs, br, endPara) ==
    Child("a:r", runs # <<>>, runs) @@ Child("a:br", br, <<"">>)
        @@ Child("a:endParaRPr", endPara, <<Empty>>)
TextBody(paragraphs) == Child("a:p", paragraphs # <<>>, paragraphs)
Shape(bodies) == Child("p:txBody", bodies # <<>>, bodies)
SpTree(shapes) == Child("p:sp", shapes # <<>>, shapes)
Slide(shapes) ==
    "p:sld" :> ("p:cSld" :> <<"p:spTree" :> <<SpTree(shapes)>>>>)

(***************************************************************************)
(* Array.prototype.join                                                    *)
(***************************************************************************)
RECURSIVE JoinFrom(_, _, _)
JoinFrom(arr, sep, k) ==
    IF k > Len(arr) THEN ""
    ELSE IF k = Len(arr) THEN arr[k]
    ELSE arr[k] \o sep \o JoinFrom(arr, sep, k + 1)
Join(arr, sep) == JoinFrom(arr, sep, 1)

(***************************************************************************)
(* extractTextFromSlide, lines 202-260                                     *)
(***************************************************************************)
\* lines 226-232: the run texts pushed on paragraphText
RECURSIVE RunTokensFrom(_, _)
RunTokensFrom(runs, k) ==
    IF k > Len(runs) THEN <<>>
    ELSE (IF Has(runs[k], "a:t") THEN <<runs[k]["a:t"][1]>> ELSE <<>>)
             \o RunTokensFrom(runs, k + 1)
RunTokens(paragraph) ==
    IF Has(paragraph, "a:r") THEN RunTokensFrom(paragraph["a:r"], 1) ELSE <<>>

\* lines 234-237
BreakTokens(paragraph, paragraphText) ==
    IF Has(paragraph, "a:br") THEN Append(paragraphText, "\n") ELSE paragraphText

\* lines 239-242
NeedsParagraphBreak_noRuns(paragraph, paragraphText) ==
    RunTokens(paragraph) = <<>> \/ Has(paragraph, "a:endParaRPr")
NeedsParagraphBreak(paragraph, paragraphText) ==
    Len(paragraphText) = 0 \/ Has(paragraph, "a:endParaRPr")

\* lines 223-242: paragraphText when the paragraph has been processed
ParagraphText_breakFirst(paragraph) ==
    LET marked == BreakTokens(paragraph, <<>>) \o RunTokens(paragraph)
    IN  IF NeedsParagraphBreak(paragraph, marked) THEN Append(marked, "\n") ELSE marked
ParagraphText(paragraph) ==
    LET collected == BreakTokens(paragraph, RunTokens(paragraph))
    IN  IF NeedsParagraphBreak(paragraph, collected)
        THEN Append(collected, "\n")
        ELSE collected

\* lines 222-247: paragraphTexts of one text body
RECURSIVE ParagraphTextsFrom(_, _)
ParagraphTextsFrom(paragraphs, k) ==
    IF k > Len(paragraphs) THEN <<>>
    ELSE LET paragraphText == ParagraphText(paragraphs[k])
         IN  (IF Len(paragraphText) > 0 THEN <<Join(paragraphText, "")>> ELSE <<>>)
                 \o ParagraphTextsFrom(paragraphs, k + 1)
ParagraphTexts(textBody) == ParagraphTextsFrom(textBody["a:p"], 1)

\* lines 249-251: what one text body with a:p pushes on texts
BlockOf_noSeparator(paragraphTexts) ==
    IF Len(paragraphTexts) > 0 THEN <<Join(paragraphTexts, "")>> ELSE <<>>
BlockOf(paragraphTexts) ==
    IF Len(paragraphTexts) > 0 THEN <<Join(paragraphTexts, "\n")>> ELSE <<>>

\* lines 217-253: one shape's text bodies.  field "texts": what is pushed on
\* texts, field "trace": the paragraphTexts arrays built on the way
RECURSIVE BodiesFrom(_, _)
BodiesFrom(bodies, k) ==
    IF k > Len(bodies) THEN [texts |-> <<>>, trace |-> <<>>]
    ELSE LET rest == BodiesFrom(bodies, k + 1)
         IN  IF Has(bodies[k], "a:p")
             THEN LET paragraphTexts == ParagraphTexts(bodies[k])
                  IN  [texts |-> BlockOf(paragraphTexts) \o rest.texts,
                       trace |-> <<paragraphTexts>> \o rest.trace]
             ELSE rest

\* lines 216-254
ShapeTexts_bodyless(shape) ==
    IF Has(shape, "p:txBody")
    THEN BodiesFrom(shape["p:txBody"], 1)
    ELSE [texts |-> <<"">>, trace |-> <<>>]
ShapeTexts(shape) ==
    IF Has(shape, "p:txBody")
    THEN BodiesFrom(shape["p:txBody"], 1)
    ELSE [texts |-> <<>>, trace |-> <<>>]

\* lines 215-255
RECURSIVE ShapesFrom(_, _)
ShapesFrom(shapes, k) ==
    IF k > Len(shapes) THEN [texts |-> <<>>, trace |-> <<>>]
    ELSE LET here == ShapeTexts(shapes[k])
             rest == ShapesFrom(shapes, k + 1)
         IN  [texts |-> here.texts \o rest.texts, trace |-> here.trace \o rest.trace]

\* lines 206-210: the && chain; "TypeError" is a property read of undefined
SlideGuard_noCSldTest(data) ==
    IF ~Has(data, "p:sld") THEN "skip"
    ELSE IF ~Has(data["p:sld"], "p:cSld") THEN "TypeError"
    ELSE IF ~Has(data["p:sld"]["p:cSld"][1], "p:spTree") THEN "skip"
    ELSE "enter"
SlideGuard(data) ==
    IF ~Has(data, "p:sld") THEN "skip"
    ELSE IF ~Has(data["p:sld"], "p:cSld") THEN "skip"
    ELSE IF ~Has(data["p:sld"]["p:cSld"][1], "p:spTree") THEN "skip"
    ELSE "enter"

\* lines 202-260
ExtractTextFromSlideResult(data) ==
    LET guard == SlideGuard(data)
        none  == [texts |-> <<>>, trace |-> <<>>]
    IN  IF guard = "TypeError" THEN none @@ [threw |-> TRUE]
        ELSE IF guard = "skip" THEN none @@ [threw |-> FALSE]
        ELSE LET spTree == data["p:sld"]["p:cSld"][1]["p:spTree"][1]
             IN  (IF Has(spTree, "p:sp") THEN ShapesFrom(spTree["p:sp"], 1) ELSE none)
                     @@ [threw |-> FALSE]

(***************************************************************************)
(* Inputs of extractTextFromSlide.                                         *)
(***************************************************************************)
Flags == BOOLEAN \X BOOLEAN
\* paragraphs with at most one run
PlainParagraphs ==
    {Paragraph(runs, f[1], f[2]) :
        runs \in {<<>>, <<RunNoText>>, <<Run("")>>, <<Run("Hello ")>>}, f \in Flags}
PlainBodies == {TextBody(<<>>), TextBody(<<Paragraph(<<Run("Hello ")>>, FALSE, FALSE)>>),
                TextBody(<<Paragraph(<<>>, FALSE, FALSE)>>)}
\* shapes with up to MaxBodies text bodies, or none
PlainShapes == {Shape(bodies) : bodies \in {<<>>} \cup SeqUpTo(PlainBodies, MaxBodies)}
\* no root, no p:cSld, no p:spTree, no p:sp
BareTrees ==
    {Empty, "p:sld" :> Empty, "p:sld" :> ("p:cSld" :> <<Empty>>), Slide(<<>>)}

\* one paragraph with up to MaxRuns runs
IsParagraphTree(data) ==
    \E n \in 0..MaxRuns : \E runs \in [1..n -> Runs] : \E f \in Flags :
        data = Slide(<<Shape(<<TextBody(<<Paragraph(runs, f[1], f[2])>>)>>)>>)
\* one text body with up to MaxParas plain paragraphs
IsBodyTree(data) ==
    \E n \in 1..MaxParas : \E ps \in [1..n -> PlainParagraphs] :
        data = Slide(<<Shape(<<TextBody(ps)>>)>>)
\* up to MaxShapes plain shapes
IsShapeTree(data) ==
    \E n \in 1..MaxShapes : \E shapes \in [1..n -> PlainShapes] : data = Slide(shapes)

ExtractIdle ==
    /\ slideData = Empty
    /\ texts = <<>>
    /\ paragraphTrace = <<>>
    /\ threw = FALSE
    /\ xpc = "off"

InitExtractCall ==
    /\ \/ IsParagraphTree(slideData)
       \/ IsBodyTree(slideData)
       \/ IsShapeTree(slideData)
       \/ slideData \in BareTrees
    /\ texts = <<>>
    /\ paragraphTrace = <<>>
    /\ threw = FALSE
    /\ xpc = "ready"

ExtractTextFromSlide ==
    /\ xpc = "ready"
    /\ LET r == ExtractTextFromSlideResult(slideData)
       IN  /\ texts' = r.texts
           /\ paragraphTrace' = r.trace
           /\ threw' = r.threw
    /\ xpc' = "done"
    /\ UNCHANGED <<slideData, parseVars, relVars>>

(***************************************************************************)
(* getSlideRelations, lines 152-160                                        *)
(***************************************************************************)
\* relationship Type values, as character sequences
SlideSuffix      == <<"/", "s", "l", "i", "d", "e">>
SlideType        == <<"r", "e", "l">> \o SlideSuffix
SlideLayoutType  == SlideType \o <<"L", "a", "y", "o", "u", "t">>
SlideMasterType  == SlideType \o <<"M", "a", "s", "t", "e", "r">>
UpperSlideType   == <<"r", "e", "l", "/", "S", "l", "i", "d", "e">>
BareSlideType    == <<"s", "l", "i", "d", "e">>

\* String.prototype.includes
Includes(s, search) ==
    \E start \in 0..(Len(s) - Len(search)) :
        \A k \in 1..Len(search) : s[start + k] = search[k]
EndsWith_includes(s, search) == Includes(s, search)
\* String.prototype.endsWith
EndsWith(s, search) ==
    LET start == Len(s) - Len(search)
    IN  /\ start >= 0
        /\ \A k \in 1..Len(search) : s[start + k] = search[k]

Relationship(type, id, target) == "$" :> [Type |-> type, Id |-> id, Target |-> target]
\* records = <<>> stands for a Relationships element without Relationship children
RelationshipsData(records) ==
    "Relationships" :> Child("Relationship", records # <<>>, records)

\* lines 155-159: filter, then map
RECURSIVE FilterMapFrom(_, _)
FilterMapFrom(relationships, k) ==
    IF k > Len(relationships) THEN <<>>
    ELSE LET rel == relationships[k]
         IN  (IF EndsWith(rel["$"].Type, SlideSuffix)
              THEN <<[id |-> rel["$"].Id, target |-> rel["$"].Target]>>
              ELSE <<>>) \o FilterMapFrom(relationships, k + 1)

\* lines 152-160; a property read of undefined is a TypeError
GetSlideRelations(data) ==
    IF ~Has(data, "Relationships")
    THEN [threw |-> TRUE, relations |-> <<>>,
          message |-> "Cannot read properties of undefined (reading 'Relationship')"]
    ELSE IF ~Has(data["Relationships"], "Relationship")
    THEN [threw |-> TRUE, relations |-> <<>>,
          message |-> "Cannot read properties of undefined (reading 'filter')"]
    ELSE [threw |-> FALSE, message |-> "",
          relations |-> FilterMapFrom(data["Relationships"]["Relationship"], 1)]

(***************************************************************************)
(* Inputs of getSlideRelations.                                            *)
(***************************************************************************)
RecordTypes == {SlideType, SlideLayoutType, SlideMasterType, UpperSlideType, BareSlideType}
RecordIds == {"rId1", "rId2"}
Targets == {"slides/slide1.xml", "slides/slide2.xml"}
Records == {Relationship(t, i, g) : t \in RecordTypes, i \in RecordIds, g \in Targets}
RelationsIdle ==
    /\ relationshipsDoc = Empty
    /\ relationsOut = <<>>
    /\ relThrew = FALSE
    /\ rpc = "off"

\* a document without the root, without records, or with up to MaxRecords records
InitRelationsCall ==
    /\ \/ relationshipsDoc = Empty
       \/ \E n \in 0..MaxRecords : \E rs \in [1..n -> Records] :
              relationshipsDoc = RelationshipsData(rs)
    /\ relationsOut = <<>>
    /\ relThrew = FALSE
    /\ rpc = "ready"

GetSlideRelationsCall ==
    /\ rpc = "ready"
    /\ LET r == GetSlideRelations(relationshipsDoc)
       IN  /\ relationsOut' = r.relations
           /\ relThrew' = r.threw
    /\ rpc' = "done"
    /\ UNCHANGED <<relationshipsDoc, parseVars, extractVars>>

(***************************************************************************)
(* The archive (unzipper) and the XML parser (xml2js) as parse() uses them.*)
(***************************************************************************)
PresentationPath  == "ppt/presentation.xml"
RelationshipsPath == "ppt/_rels/presentation.xml.rels"
SlidePath(target) == "ppt/" \o target
ArchivePaths == {PresentationPath, RelationshipsPath} \cup {SlidePath(t) : t \in Targets}

\* an entry is "absent", "ok", "unreadable" (its stream emits an error) or
\* "malformed" (its content is not well-formed XML)
EntryStates == {"absent", "ok", "unreadable", "malformed"}

\* directory.files.find((d) => d.path === path), lines 52-57 and 78-80
Find(dir, path) == [found |-> dir.entries[path] # "absent", path |-> path]

NoContent == [of |-> "", wellFormed |-> TRUE, doc |-> <<>>]
ReadErrorMessage(path) == "stream error in " \o path
XmlErrorMessage(path)  == "invalid XML in " \o path

\* getFileContent, lines 117-126: the content read from the entry's stream, or
\* the stream's error; file.stream() of undefined is a TypeError
GetFileContent(dir, file) ==
    IF ~file.found
    THEN [ok |-> FALSE, content |-> NoContent,
          message |-> "Cannot read properties of undefined (reading 'stream')"]
    ELSE IF dir.entries[file.path] = "unreadable"
    THEN [ok |-> FALSE, content |-> NoContent, message |-> ReadErrorMessage(file.path)]
    ELSE [ok |-> TRUE, message |-> "",
          content |-> [of |-> file.path,
                       wellFormed |-> dir.entries[file.path] # "malformed",
                       doc |-> IF file.path = RelationshipsPath THEN dir.doc ELSE <<>>]]

\* parseXmlContent, lines 134-141: the tree xml2js builds, or its error
ParseXmlContent(xmlContent) ==
    IF ~xmlContent.wellFormed
    THEN [ok |-> FALSE, parsed |-> Empty, message |-> XmlErrorMessage(xmlContent.of)]
    ELSE [ok |-> TRUE, message |-> "",
          parsed |-> IF xmlContent.of = RelationshipsPath
                     THEN RelationshipsData(xmlContent.doc)
                     ELSE "root" :> xmlContent.of]

(***************************************************************************)
(* parse, lines 47-109                                                     *)
(***************************************************************************)
NoPart == [path |-> "", xml |-> NoContent, parsed |-> Empty]
NoSlide == [id |-> "", path |-> "", xml |-> NoContent, parsed |-> Empty]
NoResult == [presentation |-> NoPart, relationships |-> NoPart, slides |-> <<>>]
Pending == [status |-> "pending", message |-> "", result |-> NoResult]

\* line 59
MissingRequired_both(presentationXml, slideRelationsXml) ==
    ~presentationXml.found /\ ~slideRelationsXml.found
MissingRequired(presentationXml, slideRelationsXml) ==
    ~presentationXml.found \/ ~slideRelationsXml.found

\* line 107
Wrap(message) == "Failed to parse PPTX: " \o message

\* lines 106-108: the promise of parse() rejects, once
SettleRejected(current, message) ==
    IF current.status = "pending"
    THEN [status |-> "failed", message |-> Wrap(message), result |-> NoResult]
    ELSE current

\* Promise.all, line 76: the value of task i goes to slot i
StoreValue_completionOrder(slots, i, value) ==
    LET free == {k \in 1..Len(slots) : slots[k].state = "pending"}
        k0   == CHOOSE k \in free : \A m \in free : k <= m
    IN  [slots EXCEPT ![k0] = value]
StoreValue(slots, i, value) == [slots EXCEPT ![i] = value]

\* line 104
DropNulls(slots) ==
    LET IsSlide(v) == v.state # "null"
        kept == SelectSeq(slots, IsSlide)
    IN  [k \in 1..Len(kept) |-> kept[k].slide]

\* lines 77-82: the callback of map up to its first await
StartTask(dir, relation) ==
    LET slideFile == Find(dir, SlidePath(relation.target))
    IN  [st |-> IF slideFile.found THEN "reading" ELSE "null",
         relation |-> relation, file |-> slideFile, content |-> NoContent]

\* lines 76 and 106-108: the first task to reject rejects Promise.all, which
\* rejects parse(); later rejections change nothing
OnTaskRejected_ignored(current, message) == current
OnTaskRejected(current, message) == SettleRejected(current, message)

TaskFail(message) ==
    /\ outcome' = OnTaskRejected(outcome, message)
    /\ pc' = IF outcome'.status = "pending" THEN pc ELSE "done"

Fail(message) ==
    /\ outcome' = SettleRejected(outcome, message)
    /\ pc' = "done"

\* lines 49-64: open, locate the two required parts, begin reading the first
Open ==
    /\ pc = "start"
    /\ LET presentationXml == Find(archive, PresentationPath)
           slideRelationsXml == Find(archive, RelationshipsPath)
       IN  IF MissingRequired(presentationXml, slideRelationsXml)
           THEN Fail("Invalid PPTX file structure") /\ UNCHANGED readsStarted
           ELSE /\ pc' = "readPresentation"
                /\ readsStarted' = readsStarted + 1
                /\ UNCHANGED outcome
    /\ UNCHANGED <<archive, call, presentationContent, relationshipsContent,
                   presentationData, relationshipsData, tasks, values, first,
                   failures, outOfOrder, firstOutOfOrder, relVars, extractVars>>

\* line 64 settles; line 65 begins
ReadPresentation ==
    /\ pc = "readPresentation"
    /\ LET r == GetFileContent(archive, Find(archive, PresentationPath))
       IN  IF r.ok
           THEN /\ presentationContent' = r.content
                /\ pc' = "readRelationships"
                /\ readsStarted' = readsStarted + 1
                /\ UNCHANGED <<outcome, failures>>
           ELSE /\ Fail(r.message)
                /\ failures' = failures \cup {r.message}
                /\ UNCHANGED <<presentationContent, readsStarted>>
    /\ UNCHANGED <<archive, call, relationshipsContent, presentationData,
                   relationshipsData, tasks, values, first, outOfOrder,
                   firstOutOfOrder, relVars, extractVars>>

\* line 65 settles
ReadRelationships ==
    /\ pc = "readRelationships"
    /\ LET r == GetFileContent(archive, Find(archive, RelationshipsPath))
       IN  IF r.ok
           THEN /\ relationshipsContent' = r.content
                /\ pc' = "parsePresentation"
                /\ UNCHANGED <<outcome, failures>>
           ELSE /\ Fail(r.message)
                /\ failures' = failures \cup {r.message}
                /\ UNCHANGED relationshipsContent
    /\ UNCHANGED <<archive, call, presentationContent, presentationData,
                   relationshipsData, tasks, values, first, readsStarted, outOfOrder,
                   firstOutOfOrder, relVars, extractVars>>

\* line 67
ParsePresentation ==
    /\ pc = "parsePresentation"
    /\ LET r == ParseXmlContent(presentationContent)
       IN  IF r.ok
           THEN /\ presentationData' = r.parsed
                /\ pc' = "parseRelationships"
                /\ UNCHANGED <<outcome, failures>>
           ELSE /\ Fail(r.message)
                /\ failures' = failures \cup {r.message}
                /\ UNCHANGED presentationData
    /\ UNCHANGED <<archive, call, presentationContent, relationshipsContent,
                   relationshipsData, tasks, values, first, readsStarted, outOfOrder,
                   firstOutOfOrder, relVars, extractVars>>

\* lines 68-70
ParseRelationships ==
    /\ pc = "parseRelationships"
    /\ LET r == ParseXmlContent(relationshipsContent)
       IN  IF r.ok
           THEN /\ relationshipsData' = r.parsed
                /\ pc' = "resolveSlides"
                /\ UNCHANGED <<outcome, failures>>
           ELSE /\ Fail(r.message)
                /\ failures' = failures \cup {r.message}
                /\ UNCHANGED relationshipsData
    /\ UNCHANGED <<archive, call, presentationContent, relationshipsContent,
                   presentationData, tasks, values, first, readsStarted, outOfOrder,
                   firstOutOfOrder, relVars, extractVars>>

\* lines 73-90: getSlideRelations, then map runs every callback up to its first
\* await: a relation without a file is settled with null, the others begin to
\* read their file
StartSlides ==
    /\ pc = "resolveSlides"
    /\ LET r == GetSlideRelations(relationshipsData)
           started == [i \in 1..Len(r.relations) |-> StartTask(archive, r.relations[i])]
       IN  IF r.threw
           THEN Fail(r.message) /\ UNCHANGED <<tasks, values, readsStarted>>
           ELSE /\ tasks' = started
                /\ values' = [i \in 1..Len(started) |->
                                IF started[i].st = "null"
                                THEN [state |-> "null", slide |-> NoSlide]
                                ELSE [state |-> "pending", slide |-> NoSlide]]
                /\ readsStarted' = readsStarted
                       + Cardinality({i \in 1..Len(started) : started[i].st = "reading"})
                /\ pc' = "awaitSlides"
                /\ UNCHANGED outcome
    /\ UNCHANGED <<archive, call, presentationContent, relationshipsContent,
                   presentationData, relationshipsData, first, failures, outOfOrder,
                   firstOutOfOrder, relVars, extractVars>>

\* line 83 settles in task i
SlideRead(i) ==
    /\ i \in 1..Len(tasks)
    /\ tasks[i].st = "reading"
    /\ LET r == GetFileContent(archive, tasks[i].file)
       IN  IF r.ok
           THEN /\ tasks' = [tasks EXCEPT ![i].st = "parsing", ![i].content = r.content]
                /\ UNCHANGED <<outcome, pc, failures>>
           ELSE /\ tasks' = [tasks EXCEPT ![i].st = "rejected"]
                /\ TaskFail(r.message)
                /\ failures' = failures \cup {r.message}
    /\ UNCHANGED <<archive, call, presentationContent, relationshipsContent,
                   presentationData, relationshipsData, values, first, readsStarted,
                   outOfOrder, firstOutOfOrder, relVars, extractVars>>

\* lines 84-89 in task i: parse the slide and fulfil with the ParsedSlide
SlideParse(i) ==
    /\ i \in 1..Len(tasks)
    /\ tasks[i].st = "parsing"
    /\ LET r == ParseXmlContent(tasks[i].content)
       IN  IF r.ok
           THEN /\ tasks' = [tasks EXCEPT ![i].st = "fulfilled"]
                /\ values' = StoreValue(values, i,
                      [state |-> "slide",
                       slide |-> [id |-> tasks[i].relation.id, path |-> tasks[i].file.path,
                                  xml |-> tasks[i].content, parsed |-> r.parsed]])
                /\ outOfOrder' =
                      (outOfOrder \/ \E j \in (i + 1)..Len(tasks) : tasks[j].st = "fulfilled")
                /\ UNCHANGED <<outcome, pc, failures>>
           ELSE /\ tasks' = [tasks EXCEPT ![i].st = "rejected"]
                /\ TaskFail(r.message)
                /\ failures' = failures \cup {r.message}
                /\ UNCHANGED <<values, outOfOrder>>
    /\ UNCHANGED <<archive, call, presentationContent, relationshipsContent,
                   presentationData, relationshipsData, first, readsStarted,
                   firstOutOfOrder, relVars, extractVars>>

\* lines 76 and 93-105: Promise.all fulfils when every task has, and parse returns
Return ==
    /\ pc = "awaitSlides"
    /\ outcome.status = "pending"
    /\ \A i \in 1..Len(tasks) : tasks[i].st \in {"null", "fulfilled"}
    /\ outcome' =
          [status |-> "returned", message |-> "",
           result |-> [presentation |-> [path |-> "ppt/presentation.xml",
                                         xml |-> presentationContent,
                                         parsed |-> presentationData],
                       relationships |-> [path |-> "ppt/_rels/presentation.xml.rels",
                                          xml |-> relationshipsContent,
                                          parsed |-> relationshipsData],
                       slides |-> DropNulls(values)]]
    /\ pc' = "done"
    /\ UNCHANGED <<archive, call, presentationContent, relationshipsContent,
                   presentationData, relationshipsData, tasks, values, first,
                   readsStarted, failures, outOfOrder, firstOutOfOrder, relVars,
                   extractVars>>

\* the caller calls parse() again on the same archive once the first call settled
ParseAgain ==
    /\ call = 1
    /\ outcome.status # "pending"
    /\ call' = 2
    /\ first' = outcome
    /\ firstOutOfOrder' = outOfOrder
    /\ pc' = "start"
    /\ presentationContent' = NoContent
    /\ relationshipsContent' = NoContent
    /\ presentationData' = Empty
    /\ relationshipsData' = Empty
    /\ tasks' = <<>>
    /\ values' = <<>>
    /\ outcome' = Pending
    /\ readsStarted' = 0
    /\ failures' = {}
    /\ outOfOrder' = FALSE
    /\ UNCHANGED <<archive, relVars, extractVars>>

(***************************************************************************)
(* Archives.                                                               *)
(***************************************************************************)
RelId(i) == "rId" \o ToString(i)
ArchiveRecordTypes == {SlideType, SlideLayoutType}
\* the records of the relationships part; record i has Id rId<i>
ArchiveDoc(c) == [i \in 1..Len(c) |-> Relationship(c[i][1], RelId(i), c[i][2])]
\* only a readable, well-formed relationships part has records
IsArchive(a) ==
    \E e \in [ArchivePaths -> EntryStates] : \E n \in 0..MaxRels :
        \E c \in [1..n -> ArchiveRecordTypes \X Targets] :
            /\ e[RelationshipsPath] = "ok" \/ n = 0
            /\ a = [entries |-> e, doc |-> ArchiveDoc(c)]

ParseLocalsInit ==
    /\ presentationContent = NoContent
    /\ relationshipsContent = NoContent
    /\ presentationData = Empty
    /\ relationshipsData = Empty
    /\ tasks = <<>>
    /\ values = <<>>
    /\ outcome = Pending
    /\ first = Pending
    /\ readsStarted = 0
    /\ failures = {}
    /\ outOfOrder = FALSE
    /\ firstOutOfOrder = FALSE

ParseIdle ==
    /\ archive = [entries |-> [p \in ArchivePaths |-> "absent"], doc |-> <<>>]
    /\ call = 1
    /\ pc = "off"
    /\ ParseLocalsInit

InitParse ==
    /\ IsArchive(archive)
    /\ call = 1
    /\ pc = "start"
    /\ ParseLocalsInit

(***************************************************************************)
(* Specifications: two successive parse() calls on one archive; one call   *)
(* of getSlideRelations; one call of extractTextFromSlide.                 *)
(***************************************************************************)
Init == InitParse /\ RelationsIdle /\ ExtractIdle

Next ==
    \/ Open
    \/ ReadPresentation
    \/ ReadRelationships
    \/ ParsePresentation
    \/ ParseRelationships
    \/ StartSlides
    \/ \E i \in 1..MaxRels : SlideRead(i)
    \/ \E i \in 1..MaxRels : SlideParse(i)
    \/ Return
    \/ ParseAgain

Spec == Init /\ [][Next]_vars

InitRelations == ParseIdle /\ InitRelationsCall /\ ExtractIdle
NextRelations == GetSlideRelationsCall
SpecRelations == InitRelations /\ [][NextRelations]_vars

InitExtract == ParseIdle /\ RelationsIdle /\ InitExtractCall
NextExtract == ExtractTextFromSlide
SpecExtract == InitExtract /\ [][NextExtract]_vars

(***************************************************************************)
(* Properties of extractTextFromSlide.  The helpers below read the input   *)
(* tree directly; they share nothing with the operators above.             *)
(***************************************************************************)
RECURSIVE Flatten(_)
Flatten(ss) == IF ss = <<>> THEN <<>> ELSE Head(ss) \o Flatten(Tail(ss))

LevelsPresent(data) ==
    /\ Has(data, "p:sld")
    /\ Has(data["p:sld"], "p:cSld")
    /\ Has(data["p:sld"]["p:cSld"][1], "p:spTree")
    /\ Has(data["p:sld"]["p:cSld"][1]["p:spTree"][1], "p:sp")
ShapesOf(data) ==
    IF LevelsPresent(data) THEN data["p:sld"]["p:cSld"][1]["p:spTree"][1]["p:sp"] ELSE <<>>
BodiesOfShape(shape) == IF Has(shape, "p:txBody") THEN shape["p:txBody"] ELSE <<>>
AllBodies(data) ==
    LET shapes == ShapesOf(data)
    IN  Flatten([i \in 1..Len(shapes) |-> BodiesOfShape(shapes[i])])
HasParagraphs(body) == Has(body, "a:p")
BodiesWithParagraphs(data) == SelectSeq(AllBodies(data), HasParagraphs)

RunHasText(run) == Has(run, "a:t")
TextRunsOf(p) == IF Has(p, "a:r") THEN SelectSeq(p["a:r"], RunHasText) ELSE <<>>
RECURSIVE ConcatRunTexts(_)
ConcatRunTexts(runs) ==
    IF runs = <<>> THEN "" ELSE Head(runs)["a:t"][1] \o ConcatRunTexts(Tail(runs))
BreakNewline(p) == IF Has(p, "a:br") THEN "\n" ELSE ""
\* the string the trace holds for paragraph k of the b-th text body with a:p
TracedString(b, k) == paragraphTrace[b][k]
TraceAligned ==
    LET bodies == BodiesWithParagraphs(slideData)
    IN  /\ Len(paragraphTrace) = Len(bodies)
        /\ \A b \in 1..Len(bodies) : Len(paragraphTrace[b]) = Len(bodies[b]["a:p"])
ForAllParagraphs(P(_, _, _)) ==
    LET bodies == BodiesWithParagraphs(slideData)
    IN  \A b \in 1..Len(bodies) : \A k \in 1..Len(bodies[b]["a:p"]) :
            P(bodies[b]["a:p"][k], b, k)

\* C7: a paragraph with at least one run with text and no end-of-paragraph
\* marker yields the run texts concatenated in document order, unseparated and
\* untrimmed, followed by one newline exactly when it has a line-break marker.
C7_RunConcatenation ==
    xpc = "done" =>
        /\ ~threw
        /\ TraceAligned
        /\ ForAllParagraphs(LAMBDA p, b, k :
              (TextRunsOf(p) # <<>> /\ ~Has(p, "a:endParaRPr")) =>
                  TracedString(b, k) = ConcatRunTexts(TextRunsOf(p)) \o BreakNewline(p))

C7_Witness ==
    /\ xpc = "done"
    /\ slideData = Slide(<<Shape(<<TextBody(<<
           Paragraph(<<Run("Hello "), Run("World")>>, FALSE, FALSE)>>)>>)>>)
    /\ texts = <<"Hello World">>

\* C9 as stated: every paragraph without collected run text, with or without a
\* line-break marker, and every paragraph with an end-of-paragraph marker, ends
\* with a paragraph-boundary newline after the run text and the line-break
\* newline; a paragraph with run text and no end marker has none.
C9_Original ==
    xpc = "done" =>
        /\ ~threw
        /\ TraceAligned
        /\ ForAllParagraphs(LAMBDA p, b, k :
              TracedString(b, k) =
                  ConcatRunTexts(TextRunsOf(p)) \o BreakNewline(p) \o
                      (IF TextRunsOf(p) = <<>> \/ Has(p, "a:endParaRPr") THEN "\n" ELSE ""))

\* C9 amended: the paragraph-boundary newline is appended when the paragraph
\* collected no token at all (no run text and no line-break marker) or carries
\* an end-of-paragraph marker; a paragraph with run text or a line-break
\* marker, and no end marker, gets none.
C9_ParagraphBoundary ==
    xpc = "done" =>
        /\ ~threw
        /\ TraceAligned
        /\ ForAllParagraphs(LAMBDA p, b, k :
              TracedString(b, k) =
                  ConcatRunTexts(TextRunsOf(p)) \o BreakNewline(p) \o
                      (IF (TextRunsOf(p) = <<>> /\ ~Has(p, "a:br")) \/ Has(p, "a:endParaRPr")
                       THEN "\n" ELSE ""))

C9_Witness ==
    /\ xpc = "done"
    /\ slideData = Slide(<<Shape(<<TextBody(<<
           Paragraph(<<Run("Hello ")>>, TRUE, TRUE)>>)>>)>>)
    /\ texts = <<"Hello \n\n">>

\* the paragraph string the extractor is to produce, and the strings of the
\* paragraphs that produced at least one token
ExpectedTokenCount(p) ==
    Len(TextRunsOf(p)) + (IF Has(p, "a:br") THEN 1 ELSE 0)
        + (IF (TextRunsOf(p) = <<>> /\ ~Has(p, "a:br")) \/ Has(p, "a:endParaRPr")
           THEN 1 ELSE 0)
ExpectedString(p) ==
    ConcatRunTexts(TextRunsOf(p)) \o BreakNewline(p) \o
        (IF (TextRunsOf(p) = <<>> /\ ~Has(p, "a:br")) \/ Has(p, "a:endParaRPr")
         THEN "\n" ELSE "")
ProducedTokens(p) == ExpectedTokenCount(p) > 0
RECURSIVE NewlineSeparated(_)
NewlineSeparated(ss) ==
    IF ss = <<>> THEN ""
    ELSE IF Len(ss) = 1 THEN ss[1]
    ELSE ss[1] \o "\n" \o NewlineSeparated(Tail(ss))
ExpectedBlock(body) ==
    LET nonEmpty == SelectSeq(body["a:p"], ProducedTokens)
    IN  NewlineSeparated([k \in 1..Len(nonEmpty) |-> ExpectedString(nonEmpty[k])])

\* C6: the TextBlock of a text body with at least one paragraph is the strings
\* of its non-empty paragraphs (those that produced a token), in document
\* order, with exactly one newline between consecutive strings and nothing
\* before the first or after the last.
C6_ParagraphJoin ==
    xpc = "done" =>
        LET bodies == BodiesWithParagraphs(slideData)
        IN  /\ ~threw
            /\ Len(texts) = Len(bodies)
            /\ \A b \in 1..Len(bodies) : texts[b] = ExpectedBlock(bodies[b])

\* P1 with one run, P2 without runs
C6_Witness ==
    /\ xpc = "done"
    /\ slideData = Slide(<<Shape(<<TextBody(<<
           Paragraph(<<Run("Hello ")>>, FALSE, FALSE), Paragraph(<<>>, FALSE, FALSE)>>)>>)>>)
    /\ texts = <<"Hello \n\n">>

CountWithoutBody(shapes) ==
    Cardinality({i \in 1..Len(shapes) : ~Has(shapes[i], "p:txBody")})

\* C8 as stated: one entry per shape with textual content, never more entries
\* than shapes, strictly fewer when some shape has no text body.
C8_Original ==
    xpc = "done" =>
        LET shapes == ShapesOf(slideData)
        IN  /\ Len(texts) <= Len(shapes)
            /\ (CountWithoutBody(shapes) > 0 => Len(texts) < Len(shapes))

\* C8 amended: one entry per text body that has a paragraph list, shapes and
\* their text bodies in document order, none for a shape without a text body;
\* the list is never longer than the number of text bodies, and when no shape
\* has more than one text body it is never longer than the number of shapes and
\* strictly shorter whenever some shape has no text body.
C8_OneEntryPerTextBody ==
    xpc = "done" =>
        LET shapes == ShapesOf(slideData)
            bodies == AllBodies(slideData)
            withP  == BodiesWithParagraphs(slideData)
        IN  /\ Len(texts) = Len(withP)
            /\ Len(texts) <= Len(bodies)
            /\ \A b \in 1..Len(withP) : texts[b] = ExpectedBlock(withP[b])
            /\ (\A i \in 1..Len(shapes) : Len(BodiesOfShape(shapes[i])) <= 1) =>
                  /\ Len(texts) <= Len(shapes)
                  /\ (CountWithoutBody(shapes) > 0 => Len(texts) < Len(shapes))

C8_Witness ==
    /\ xpc = "done"
    /\ Len(ShapesOf(slideData)) = 2
    /\ ~Has(ShapesOf(slideData)[1], "p:txBody")
    /\ Has(ShapesOf(slideData)[2], "p:txBody")
    /\ texts = <<"Hello ">>

\* the tree without its runs that lack a:t and without its text bodies that
\* lack a:p (a paragraph or shape left with none loses the key)
StripRuns(p) ==
    [key \in (DOMAIN p) \ (IF TextRunsOf(p) = <<>> THEN {"a:r"} ELSE {}) |->
        IF key = "a:r" THEN TextRunsOf(p) ELSE p[key]]
StripBody(body) ==
    "a:p" :> [k \in 1..Len(body["a:p"]) |-> StripRuns(body["a:p"][k])]
StripShape(shape) ==
    LET kept == SelectSeq(BodiesOfShape(shape), HasParagraphs)
    IN  Shape([k \in 1..Len(kept) |-> StripBody(kept[k])])
Stripped(data) ==
    LET shapes == ShapesOf(data)
    IN  Slide([i \in 1..Len(shapes) |-> StripShape(shapes[i])])

\* C10: the extractor raises no error on missing optional nodes: without the
\* slide root, p:cSld, p:spTree or p:sp it returns the empty sequence; a text
\* body without paragraphs and a run without a:t contribute nothing, and the
\* rest of the tree is extracted as if they were not there.
C10_MissingNodes ==
    xpc = "done" =>
        /\ ~threw
        /\ (~LevelsPresent(slideData) => texts = <<>>)
        /\ (LevelsPresent(slideData) =>
                texts = ExtractTextFromSlideResult(Stripped(slideData)).texts)
        /\ Len(texts) <= Len(BodiesWithParagraphs(slideData))

C10_Witness ==
    /\ xpc = "done"
    /\ ~threw
    /\ slideData = "p:sld" :> Empty
    /\ texts = <<>>

\* a run without a:t between runs with text
C10_WitnessRun ==
    /\ xpc = "done"
    /\ slideData = Slide(<<Shape(<<TextBody(<<
           Paragraph(<<Run("Hello "), RunNoText, Run("World")>>, FALSE, FALSE)>>)>>)>>)
    /\ texts = <<"Hello World">>

(***************************************************************************)
(* Properties of getSlideRelations.                                        *)
(***************************************************************************)
WellFormedDoc(data) == Has(data, "Relationships") /\ Has(data["Relationships"], "Relationship")
RecordsOf(data) == IF WellFormedDoc(data) THEN data["Relationships"]["Relationship"] ELSE <<>>
IsSlideRecord(rec) ==
    LET t == rec["$"].Type
    IN  Len(t) >= 6 /\ SubSeq(t, Len(t) - 5, Len(t)) = <<"/", "s", "l", "i", "d", "e">>
SlideIndexes(records) == {i \in 1..Len(records) : IsSlideRecord(records[i])}
\* the position in the output of the slide record at index i
Rank(records, i) == Cardinality({j \in SlideIndexes(records) : j <= i})

\* C4: for a well-formed record list getSlideRelations returns exactly the
\* (Id, Target) pairs of the records whose Type ends with "/slide", in document
\* order, neither re-sorted nor deduplicated; slideLayout and slideMaster
\* records never appear.
C4_SlideRelationFilter ==
    (rpc = "done" /\ WellFormedDoc(relationshipsDoc)) =>
        LET records == RecordsOf(relationshipsDoc)
        IN  /\ ~relThrew
            /\ Len(relationsOut) = Cardinality(SlideIndexes(records))
            /\ \A i \in SlideIndexes(records) :
                  relationsOut[Rank(records, i)] =
                      [id |-> records[i]["$"].Id, target |-> records[i]["$"].Target]

\* a slideLayout record, then two slide records with descending ids
C4_Witness ==
    /\ rpc = "done"
    /\ relationshipsDoc = RelationshipsData(<<
           Relationship(SlideLayoutType, "rId1", "slides/slide1.xml"),
           Relationship(SlideType, "rId2", "slides/slide2.xml"),
           Relationship(SlideType, "rId1", "slides/slide1.xml")>>)
    /\ relationsOut = <<[id |-> "rId2", target |-> "slides/slide2.xml"],
                        [id |-> "rId1", target |-> "slides/slide1.xml"]>>

(***************************************************************************)
(* Properties of parse.                                                    *)
(***************************************************************************)
EntryPresent(path) == archive.entries[path] # "absent"
SlideRecordWithFile(rec) ==
    IsSlideRecord(rec) /\ EntryPresent("ppt/" \o rec["$"].Target)
\* <<id, path>> of the slide relations whose file exists, in document order
ExpectedSlideIds ==
    LET kept == SelectSeq(archive.doc, SlideRecordWithFile)
    IN  [k \in 1..Len(kept) |-> <<kept[k]["$"].Id, "ppt/" \o kept[k]["$"].Target>>]
ReturnedSlideIds ==
    [k \in 1..Len(outcome.result.slides) |->
        <<outcome.result.slides[k].id, outcome.result.slides[k].path>>]

\* C1: the slide list parse() returns is the slide relations whose file
\* `ppt/<target>` exists, in relationships-document order, each slide with the
\* id of its relation; a relation without a file is dropped without an error,
\* and the order in which the slide tasks complete does not show.
C1_SlidesInRelationOrder ==
    outcome.status = "returned" =>
        /\ EntryPresent("ppt/presentation.xml")
        /\ EntryPresent("ppt/_rels/presentation.xml.rels")
        /\ ReturnedSlideIds = ExpectedSlideIds

\* rId1 has no file and is dropped; the task of rId3 fulfilled before that of rId2
C1_Witness ==
    /\ outcome.status = "returned"
    /\ outOfOrder
    /\ Len(archive.doc) = 3
    /\ \A i \in 1..3 : IsSlideRecord(archive.doc[i])
    /\ ~EntryPresent("ppt/" \o archive.doc[1]["$"].Target)
    /\ ReturnedSlideIds = <<<<"rId2", "ppt/slides/slide2.xml">>,
                            <<"rId3", "ppt/slides/slide2.xml">>>>

MissingRequiredPart ==
    ~EntryPresent("ppt/presentation.xml") \/ ~EntryPresent("ppt/_rels/presentation.xml.rels")

\* C2: without ppt/presentation.xml or ppt/_rels/presentation.xml.rels parse()
\* fails with the invalid-structure message and no result, and before that no
\* entry content is read and no slide task is started.
C2_MissingRequiredPart ==
    MissingRequiredPart =>
        /\ readsStarted = 0
        /\ tasks = <<>>
        /\ outcome.status # "returned"
        /\ pc = "done" =>
              outcome = [status |-> "failed", result |-> NoResult,
                         message |-> "Failed to parse PPTX: Invalid PPTX file structure"]

\* only the relationships part is missing
C2_Witness ==
    /\ pc = "done"
    /\ EntryPresent("ppt/presentation.xml")
    /\ ~EntryPresent("ppt/_rels/presentation.xml.rels")
    /\ outcome.status = "failed"

\* C3: once the read or the XML parse of a part has failed, parse() has failed:
\* it returns nothing, and its one failure carries, behind the uniform prefix,
\* the message of a failure that occurred, whatever the interleaving of the
\* slide tasks.
C3_FailureAbortsLoad ==
    failures # {} =>
        /\ outcome.status = "failed"
        /\ outcome.result = NoResult
        /\ \E m \in failures : outcome.message = "Failed to parse PPTX: " \o m

\* a slide fails after another slide's task has fulfilled
C3_Witness ==
    /\ outcome.status = "failed"
    /\ \E i \in 1..Len(tasks) : tasks[i].st = "fulfilled"
    /\ \E i \in 1..Len(tasks) : tasks[i].st = "rejected"
    /\ \E i \in 1..Len(tasks) : tasks[i].st = "reading"

\* C5: the second parse() of the unchanged archive settles as the first did
\* and, when it returns, returns an equal presentation, relationships and slide
\* list, whatever the completion orders of the slide tasks in the two calls.
C5_SecondLoadEqualsFirst ==
    (call = 2 /\ outcome.status # "pending") =>
        /\ outcome.status = first.status
        /\ outcome.status = "returned" => outcome.result = first.result

\* two slides, completed in relation order in one call and out of it in the other
C5_Witness ==
    /\ call = 2
    /\ outcome.status = "returned"
    /\ Len(outcome.result.slides) >= 2
    /\ outOfOrder # firstOutOfOrder
====
